---- MODULE Spec2Model ----
(***************************************************************************)
(* Model of LiveMusicHelper (src/unnamed/part_000): the streaming playback *)
(* session manager.  One action per handler, callback or continuation of   *)
(* an async method.  The code runs on one event loop: a handler runs to    *)
(* its first await of a pending promise, and the continuation of an await  *)
(* runs when the promise settles, before any other callback.               *)
(***************************************************************************)
EXTENDS Integers, Sequences, FiniteSets, TLC

\* ---------------------------------------------------------------- bounds
MaxAttempts == 2      \* connect() invocations in one behaviour
MaxPlays    == 2      \* play() calls suspended at the same time
MaxTime     == 4      \* last value of audioContext.currentTime
MaxDecoding == 1      \* fragments whose decode is suspended at the same time
MaxTimers   == 1      \* bufferTime timers armed at the same time
MaxPrompts  == 1      \* prompt ids in a snapshot
MaxBatch    == 2      \* fragments in the audioChunks of one message
MaxOverlap  == 2      \* suspended decodes where messages overlap a decode
MaxRequests == 2      \* requests the token endpoint receives

\* ------------------------------------------------------ program constants
bufferTime == 2

PlaybackStates == {"stopped", "loading", "playing", "paused"}
Durations == {1, 2}             \* audioBuffer.duration of a decoded fragment
Weights   == {0, 1, 2}
PromptIds == 1..MaxPrompts
TextNames == <<"t1", "t2", "t3">>
Text(i)   == TextNames[i]       \* the text of prompt i: one text per prompt
Texts     == {Text(i) : i \in PromptIds}

\* a snapshot: Map<promptId, Prompt>, restricted to the fields the core reads
Snapshots ==
    UNION {{[i \in D |-> [text |-> Text(i), weight |-> w[i]]] :
               w \in [D -> Weights]} : D \in SUBSET PromptIds}

VARIABLES
    playbackState,    \* this.playbackState
    session,          \* this.session: 0 is null, else the connection's id
    sessionPromise,   \* this.sessionPromise: 0 is null, else the attempt whose
                      \* promise it holds (connect()'s own promise while the
                      \* attempt awaits aiFactory, the remote connect's after)
    connectionError,  \* this.connectionError
    filteredPrompts,  \* this.filteredPrompts
    nextStartTime,    \* this.nextStartTime
    prompts,          \* this.prompts
    sessionId,        \* this.sessionId: 0 is null, else the n-th minted id
    outputConnected,  \* the current outputNode is connected to the destination
    attempts,         \* the connect() invocations, in call order
    awaiting,         \* awaiting[a]: play() calls suspended on attempt a
    decoding,         \* the fragments suspended in `await decodeAudioData`,
                      \* in delivery order: the duration each decodes to
    overtaken,        \* how many of them, the oldest ones, were delivered
                      \* before a fragment that is on the timeline already
    timers,           \* armed bufferTime timers
    now,              \* audioContext.currentTime
    thrPending,       \* the rate limiter: << >> when idle; while its 200 ms
                      \* window runs, <<snapshot, superseded>>: the latest
                      \* argument, and whether it replaced an earlier one
    tornDown,         \* what tore the session down last, with no play() call
                      \* since: "stop", "failure", or "none"
    started,          \* the source.start() calls of the last handler
    announced,        \* the state the last playback-state-changed notification
                      \* carried, "stopped" while none was dispatched
    lastOp,           \* the handler that ran last
    emitted,          \* the notifications it dispatched, in order
    sent,             \* the outbound commands it invoked, in order
    requests          \* the token endpoint: the requests it received, each
                      \* with the responses its handler sent

mgr == <<playbackState, session, sessionPromise, connectionError,
         filteredPrompts, nextStartTime, prompts, sessionId, outputConnected>>
env == <<attempts, awaiting, decoding, overtaken, timers, now, thrPending>>
client == <<mgr, env, tornDown, started, announced, lastOp, emitted, sent>>
vars == <<client, requests>>

\* ------------------------------------------------- the manager as a value
\* The handlers call each other (setWeightedPrompts calls pause, playPause
\* calls play/pause/stop), so each is an operator from the manager's fields to
\* the manager's fields; an action commits the result.
M == [playbackState |-> playbackState, session |-> session,
      sessionPromise |-> sessionPromise, connectionError |-> connectionError,
      filteredPrompts |-> filteredPrompts, nextStartTime |-> nextStartTime,
      prompts |-> prompts, sessionId |-> sessionId,
      outputConnected |-> outputConnected, tornDown |-> tornDown,
      emitted |-> <<>>, sent |-> <<>>]

\* what the listeners of playback-state-changed heard last
StateChanges(seq) ==
    SelectSeq(seq, LAMBDA e : e.type = "playback-state-changed")

Announced(seq, before) ==
    IF StateChanges(seq) = << >> THEN before
    ELSE StateChanges(seq)[Len(StateChanges(seq))].detail

Commit(m) ==
    /\ playbackState' = m.playbackState
    /\ session' = m.session
    /\ sessionPromise' = m.sessionPromise
    /\ connectionError' = m.connectionError
    /\ filteredPrompts' = m.filteredPrompts
    /\ nextStartTime' = m.nextStartTime
    /\ prompts' = m.prompts
    /\ sessionId' = m.sessionId
    /\ outputConnected' = m.outputConnected
    /\ tornDown' = m.tornDown
    /\ emitted' = m.emitted
    /\ sent' = m.sent
    /\ announced' = Announced(m.emitted, announced)
    /\ requests' = requests

\* rejected: the play() calls whose promise rejected in the step
\* chunks: the audioChunks of the message, when the handler is onmessage
Op(name, arg) ==
    [op |-> name, arg |-> arg, rejected |-> 0, chunks |-> << >>]

\* 1 when the handler called is pause() or stop() and the handler that ran
\* last was the same one
Repeat(name) == IF name \in {"pause", "stop"} /\ lastOp.op = name THEN 1 ELSE 0

Ev(type, detail) == [type |-> type, detail |-> detail]
Cmd(c, cmd, arg, ok) == [conn |-> c, cmd |-> cmd, arg |-> arg, ok |-> ok]

Emit(m, type, detail) == [m EXCEPT !.emitted = Append(@, Ev(type, detail))]

\* a call of a method of the session object; ok = FALSE is the call throwing
Send(m, cmd, arg, ok) ==
    [m EXCEPT !.sent = Append(@, Cmd(m.session, cmd, arg, ok))]

\* ------------------------------------------------------------- handlers
\* the field assigned with no notification
setPlaybackStateSilent(m, state) == [m EXCEPT !.playbackState = state]

setPlaybackState(m, state) ==
    Emit([m EXCEPT !.playbackState = state], "playback-state-changed", state)

\* the getter without the filteredPrompts test of line 149
activePromptsUnfiltered(m) ==
    {[id |-> i, text |-> m.prompts[i].text, weight |-> m.prompts[i].weight] :
        i \in {j \in DOMAIN m.prompts : m.prompts[j].weight # 0}}

activePrompts(m) ==
    {[id |-> i, text |-> m.prompts[i].text, weight |-> m.prompts[i].weight] :
        i \in {j \in DOMAIN m.prompts :
                  /\ m.prompts[j].text \notin m.filteredPrompts
                  /\ m.prompts[j].weight # 0}}

\* pause() resetting the filtered texts along with the clock
pauseResetsFiltered(m, ok) ==
    LET m1 == IF m.session # 0 THEN Send(m, "pause", {}, ok) ELSE m
        m2 == setPlaybackState(m1, "paused")
    IN  [m2 EXCEPT !.nextStartTime = 0, !.outputConnected = FALSE,
                   !.filteredPrompts = {}]

\* pause() without the `if (this.session)` guard
pauseUnguarded(m, ok) ==
    LET m2 == setPlaybackState(Send(m, "pause", {}, ok), "paused")
    IN  [m2 EXCEPT !.nextStartTime = 0, !.outputConnected = FALSE]

\* pause() letting go of the connection as stop() does
pauseDisconnects(m, ok) ==
    LET m1 == IF m.session # 0 THEN Send(m, "pause", {}, ok) ELSE m
        m2 == setPlaybackState(m1, "paused")
    IN  [m2 EXCEPT !.nextStartTime = 0, !.outputConnected = FALSE,
                   !.session = 0, !.sessionPromise = 0]

pause(m, ok) ==
    LET m1 == IF m.session # 0 THEN Send(m, "pause", {}, ok) ELSE m
        m2 == setPlaybackState(m1, "paused")
    IN  [m2 EXCEPT !.nextStartTime = 0, !.outputConnected = FALSE]

\* stop() without the try/catch of line 208: a throwing send ends the handler
stopThrows(m, ok) ==
    LET m1 == IF m.session # 0 THEN Send(m, "stop", {}, ok) ELSE m
        m2 == setPlaybackState(m1, "stopped")
    IN  IF m.session # 0 /\ ~ok THEN m1
        ELSE [m2 EXCEPT !.nextStartTime = 0, !.session = 0, !.sessionPromise = 0]

\* stop() written as pause() followed by the teardown
stopViaPause(m, ok) ==
    LET m0 == pause(m, ok)
        m1 == IF m0.session # 0 THEN Send(m0, "stop", {}, ok) ELSE m0
        m2 == setPlaybackState(m1, "stopped")
    IN  [m2 EXCEPT !.nextStartTime = 0, !.session = 0, !.sessionPromise = 0]

stop(m, ok) ==
    LET m1 == IF m.session # 0 THEN Send(m, "stop", {}, ok) ELSE m
        m2 == setPlaybackState(m1, "stopped")
    IN  [m2 EXCEPT !.nextStartTime = 0, !.session = 0, !.sessionPromise = 0]

\* handleDisconnect() telling the backend to stop, as stop() does
handleDisconnectSendsStop(m) ==
    LET m0 == IF m.session # 0 THEN Send(m, "stop", {}, TRUE) ELSE m
        m1 == setPlaybackState([m0 EXCEPT !.connectionError = TRUE], "stopped")
    IN  [m1 EXCEPT !.nextStartTime = 0, !.session = 0, !.sessionPromise = 0]

\* handleDisconnect() without line 228
handleDisconnectKeepsPromise(m) ==
    LET m1 == setPlaybackState([m EXCEPT !.connectionError = TRUE], "stopped")
    IN  [m1 EXCEPT !.nextStartTime = 0, !.session = 0]

handleDisconnect(m) ==
    LET m1 == setPlaybackState([m EXCEPT !.connectionError = TRUE], "stopped")
    IN  [m1 EXCEPT !.nextStartTime = 0, !.session = 0, !.sessionPromise = 0]

\* the body without line 154: the snapshot is not stored before it is read
setWeightedPromptsBodyStale(m, snapshot, okSend, okPause) ==
    IF activePrompts(m) = {}
    THEN pause(Emit(m, "error", "no-active-prompt"), okPause)
    ELSE IF m.session = 0 THEN [m EXCEPT !.prompts = snapshot]
    ELSE LET m2 == Send(m, "prompts", activePrompts(m), okSend)
         IN  IF okSend THEN [m2 EXCEPT !.prompts = snapshot]
             ELSE pause(Emit(m2, "error", "send-failed"), okPause)

\* the body without the catch of lines 171-175
setWeightedPromptsBodyNoCatch(m, snapshot, okSend, okPause) ==
    LET m1 == [m EXCEPT !.prompts = snapshot]
    IN  IF activePrompts(m1) = {}
        THEN pause(Emit(m1, "error", "no-active-prompt"), okPause)
        ELSE IF m1.session = 0 THEN m1
        ELSE Send(m1, "prompts", activePrompts(m1), okSend)

\* the body without the pause() of line 158
setWeightedPromptsBodyNoPause(m, snapshot, okSend, okPause) ==
    LET m1 == [m EXCEPT !.prompts = snapshot]
    IN  IF activePrompts(m1) = {}
        THEN Emit(m1, "error", "no-active-prompt")
        ELSE IF m1.session = 0 THEN m1
        ELSE LET m2 == Send(m1, "prompts", activePrompts(m1), okSend)
             IN  IF okSend THEN m2
                 ELSE pause(Emit(m2, "error", "send-failed"), okPause)

\* the body without the return of line 164: the send on a null session throws
\* and the catch of lines 171-175 runs
setWeightedPromptsBodyUnguarded(m, snapshot, okSend, okPause) ==
    LET m1 == [m EXCEPT !.prompts = snapshot]
    IN  IF activePrompts(m1) = {}
        THEN pause(Emit(m1, "error", "no-active-prompt"), okPause)
        ELSE IF m1.session = 0
        THEN pause(Emit(m1, "error", "send-failed"), okPause)
        ELSE LET m2 == Send(m1, "prompts", activePrompts(m1), okSend)
             IN  IF okSend THEN m2
                 ELSE pause(Emit(m2, "error", "send-failed"), okPause)

\* the body the rate limiter wraps; okSend is the outcome of the prompt send,
\* okPause of the pause send
setWeightedPromptsBody(m, snapshot, okSend, okPause) ==
    LET m1 == [m EXCEPT !.prompts = snapshot]
    IN  IF activePrompts(m1) = {}
        THEN pause(Emit(m1, "error", "no-active-prompt"), okPause)
        ELSE IF m1.session = 0 THEN m1
        ELSE LET m2 == Send(m1, "prompts", activePrompts(m1), okSend)
             IN  IF okSend THEN m2
                 ELSE pause(Emit(m2, "error", "send-failed"), okPause)

\* ------------------------------------------------------ connect attempts
Attempt(stage) == [stage |-> stage, closed |-> FALSE, dropped |-> FALSE]

Stage(a) == attempts[a].stage
Connected(a) == Stage(a) \in {"connecting", "open"}

\* the connections a teardown lets go of: those this.session and
\* this.sessionPromise refer to
Referenced == {a \in {session, sessionPromise} \ {0} : Connected(a)}

Drop(conns) ==
    [a \in DOMAIN attempts |->
        IF a \in conns THEN [attempts[a] EXCEPT !.dropped = TRUE] ELSE attempts[a]]

factoryCalls == Len(attempts)
connectCalls ==
    Cardinality({a \in DOMAIN attempts :
                    Stage(a) \in {"connecting", "connectRejected", "open"}})

RECURSIVE Sum(_, _)
Sum(f, n) == IF n = 0 THEN 0 ELSE f[n] + Sum(f, n - 1)
Suspended == Sum(awaiting, MaxAttempts)

\* getSession() without the `if (!this.sessionPromise)` guard
getSessionAlwaysConnects == [promise |-> Len(attempts) + 1, fresh |-> TRUE]

\* getSession(): the promise play() awaits, and whether connect() was called
getSession ==
    IF sessionPromise = 0
    THEN [promise |-> Len(attempts) + 1, fresh |-> TRUE]
    ELSE [promise |-> sessionPromise, fresh |-> FALSE]

\* ---------------------------------------------------------------- Init
Init ==
    /\ playbackState = "stopped"
    /\ session = 0
    /\ sessionPromise = 0
    /\ connectionError = TRUE
    /\ filteredPrompts = {}
    /\ nextStartTime = 0
    /\ prompts = << >>
    /\ sessionId = 0
    /\ outputConnected = FALSE
    /\ attempts = << >>
    /\ awaiting = [a \in 1..MaxAttempts |-> 0]
    /\ decoding = << >>
    /\ overtaken = 0
    /\ timers = 0
    /\ now = 0
    /\ thrPending = << >>
    /\ tornDown = "none"
    /\ started = << >>
    /\ announced = "stopped"
    /\ lastOp = Op("init", 0)
    /\ emitted = << >>
    /\ sent = << >>
    /\ requests = << >>

\* ------------------------------------------------------- the rate limiter
\* throttle(fn, 200): a call within the window replaces the pending argument
\* (latest wins, nothing is queued); the window's end invokes fn once with it
ThrottleCall(pending, snapshot) == <<snapshot, pending # << >>>>

\* k calls in a row with the same argument
RECURSIVE ThrottleCalls(_, _, _)
ThrottleCalls(pending, snapshot, k) ==
    IF k = 0 THEN pending
    ELSE ThrottleCalls(ThrottleCall(pending, snapshot), snapshot, k - 1)

\* --------------------------------------------------------- play()
\* lines 181-193, from the resolution of `await this.getSession()` with the
\* session of attempt a: the rate-limited setWeightedPrompts is called and
\* returns, and play() goes on in the same turn of the event loop
\* play() announcing playing itself, once the play command is sent
playResumedAnnounces(m, a, ok) ==
    LET m1 == [m EXCEPT !.session = a]
        m2 == setPlaybackState(Send(m1, "play", {}, ok), "playing")
    IN  [m2 EXCEPT !.outputConnected = TRUE]

playResumed(m, a, ok) ==
    LET m1 == [m EXCEPT !.session = a]
        m2 == Send(m1, "play", {}, ok)
    IN  [m2 EXCEPT !.outputConnected = TRUE]

RECURSIVE playResumedAll(_, _, _, _)
playResumedAll(m, a, ok, k) ==
    IF k = 0 THEN m ELSE playResumedAll(playResumed(m, a, ok), a, ok, k - 1)

Settled(a) == Stage(a) \in {"open", "factoryRejected", "connectRejected"}

\* play(): lines 179-181, and the rest when the awaited promise has settled;
\* the step records whether play() was called in the paused state
play(name) ==
    LET g == getSession
        op == Op(name, IF playbackState = "paused" THEN 1 ELSE 0)
        m1 == [setPlaybackState(M, "loading")
                 EXCEPT !.sessionPromise = g.promise, !.tornDown = "none"]
    IN  IF g.fresh \/ ~Settled(g.promise)
        THEN /\ Suspended < MaxPlays
             /\ g.fresh => Len(attempts) < MaxAttempts
             /\ Commit(m1)
             /\ attempts' = IF g.fresh THEN Append(attempts, Attempt("factory"))
                            ELSE attempts
             /\ awaiting' = [awaiting EXCEPT ![g.promise] = @ + 1]
             /\ lastOp' = op
             /\ UNCHANGED thrPending
        ELSE IF Stage(g.promise) = "open"
        THEN /\ \E ok \in BOOLEAN : Commit(playResumed(m1, g.promise, ok))
             /\ thrPending' = ThrottleCall(thrPending, prompts)
             /\ lastOp' = op
             /\ UNCHANGED <<attempts, awaiting>>
        ELSE /\ Commit(m1)
             /\ lastOp' = [op EXCEPT !.rejected = 1]
             /\ UNCHANGED <<attempts, awaiting, thrPending>>

Play(name) ==
    /\ play(name)
    /\ started' = << >>
    /\ UNCHANGED <<decoding, overtaken, timers, now>>

Pause(name) ==
    /\ \E ok \in BOOLEAN : Commit(pause(M, ok))
    /\ lastOp' = Op(name, Repeat(name))
    /\ started' = << >>
    /\ UNCHANGED env

Stop(name) ==
    /\ \E ok \in BOOLEAN : Commit([stop(M, ok) EXCEPT !.tornDown = "stop"])
    /\ attempts' = Drop(Referenced)
    /\ lastOp' = Op(name, Repeat(name))
    /\ started' = << >>
    /\ UNCHANGED <<awaiting, decoding, overtaken, timers, now, thrPending>>

PlayCall == Play("play")
PauseCall == Pause("pause")
StopCall == Stop("stop")

\* a plain toggle: loading treated like playing
playPauseToggles ==
    CASE playbackState \in {"playing", "loading"} -> Pause("playPause")
      [] playbackState \in {"paused", "stopped"} -> Play("playPause")

playPause ==
    CASE playbackState = "playing" -> Pause("playPause")
      [] playbackState \in {"paused", "stopped"} -> Play("playPause")
      [] playbackState = "loading" -> Stop("playPause")

\* setWeightedPrompts(snapshot), the rate-limited entry point, with the
\* snapshots the caller may pass
SetWeightedPrompts(snapshots) ==
    /\ \E snapshot \in snapshots :
          thrPending' = ThrottleCall(thrPending, snapshot)
    /\ Commit(M)
    /\ lastOp' = Op("setWeightedPrompts", 0)
    /\ started' = << >>
    /\ UNCHANGED <<attempts, awaiting, decoding, overtaken, timers, now>>

\* the window ends: the wrapped body runs with the latest snapshot; okSends are
\* the outcomes the prompt send may have
ThrottleFire(okSends) ==
    /\ thrPending # << >>
    /\ \E okSend \in okSends, okPause \in BOOLEAN :
          Commit(setWeightedPromptsBody(M, thrPending[1], okSend, okPause))
    /\ thrPending' = << >>
    /\ lastOp' = Op("setWeightedPromptsBody", IF thrPending[2] THEN 1 ELSE 0)
    /\ started' = << >>
    /\ UNCHANGED <<attempts, awaiting, decoding, overtaken, timers, now>>

\* ------------------------------------------------ connect() continuations
SetStage(a, stage) == [attempts EXCEPT ![a].stage = stage]

\* aiFactory() resolved: lines 62-106, up to the remote connect's promise
connect(a) ==
    /\ Stage(a) = "factory"
    /\ Commit([M EXCEPT !.sessionId = connectCalls + 1, !.sessionPromise = a])
    /\ attempts' = SetStage(a, "connecting")
    /\ lastOp' = Op("connect", a)
    /\ started' = << >>
    /\ UNCHANGED <<awaiting, decoding, overtaken, timers, now, thrPending>>

\* a promise of attempt a rejected: every play() awaiting it rejects at line
\* 181, and nothing else runs
Rejected(a, stage) ==
    /\ Commit(M)
    /\ attempts' = SetStage(a, stage)
    /\ awaiting' = [awaiting EXCEPT ![a] = 0]
    /\ lastOp' = [Op(stage, a) EXCEPT !.rejected = awaiting[a]]
    /\ started' = << >>
    /\ UNCHANGED <<decoding, overtaken, timers, now, thrPending>>

\* aiFactory() rejected
FactoryReject(a) ==
    /\ Stage(a) = "factory"
    /\ Rejected(a, "factoryRejected")

\* ai.live.music.connect() rejected
ConnectReject(a) ==
    /\ Stage(a) = "connecting"
    /\ Rejected(a, "connectRejected")

\* ai.live.music.connect() resolved: every play() awaiting the attempt resumes
ConnectResolve(a) ==
    /\ Stage(a) = "connecting"
    /\ ~attempts[a].closed
    /\ \E ok \in BOOLEAN : Commit(playResumedAll(M, a, ok, awaiting[a]))
    /\ thrPending' = ThrottleCalls(thrPending, prompts, awaiting[a])
    /\ attempts' = SetStage(a, "open")
    /\ awaiting' = [awaiting EXCEPT ![a] = 0]
    /\ lastOp' = Op("connectResolve", a)
    /\ started' = << >>
    /\ UNCHANGED <<decoding, overtaken, timers, now>>

\* ---------------------------------------------------- transport callbacks
\* onerror (closes = FALSE) and onclose (closes = TRUE)
Disconnect(a, closes) ==
    /\ Connected(a)
    /\ ~attempts[a].closed
    /\ Commit([Emit(handleDisconnect(M), "error",
                     IF closes THEN "connection-closed" ELSE "connection-error")
                 EXCEPT !.tornDown = "failure"])
    /\ attempts' = [Drop(Referenced \cup {a}) EXCEPT ![a].closed = closes]
    /\ lastOp' = Op(IF closes THEN "onclose" ELSE "onerror", a)
    /\ started' = << >>
    /\ UNCHANGED <<awaiting, decoding, overtaken, timers, now, thrPending>>

\* a batch: serverContent.audioChunks, each fragment given by the duration
\* it decodes to; << >> is a message without audioChunks
Batches == UNION {[1..n -> Durations] : n \in 0..MaxBatch}
Single  == {batch \in Batches : Len(batch) <= 1}
Unit    == {<< >>, <<1>>}

\* processAudioChunks without the early return of line 115
processAudioChunksAlways(audioChunks) ==
    IF audioChunks = << >> THEN decoding
    ELSE Append(decoding, audioChunks[1])

\* processAudioChunks decoding every fragment of the batch
processAudioChunksEach(audioChunks) ==
    IF audioChunks = << >> \/ playbackState \in {"paused", "stopped"}
    THEN decoding
    ELSE decoding \o audioChunks

\* processAudioChunks up to `await decodeAudioData`: lines 115-127
processAudioChunks(audioChunks) ==
    IF audioChunks = << >> \/ playbackState \in {"paused", "stopped"}
    THEN decoding
    ELSE Append(decoding, audioChunks[1])

\* onmessage: setupComplete?, filteredPrompt? (its text, or "none"),
\* serverContent.audioChunks?, each drawn from what the backend may send;
\* at most cap decodes are suspended at the same time
onmessage(a, setups, texts, audios, cap) ==
    /\ Stage(a) = "open"
    /\ ~attempts[a].closed
    /\ \E setup \in setups, text \in texts, audioChunks \in audios :
          /\ audioChunks # << >> =>
                Len(decoding) < cap /\ nextStartTime <= MaxTime
          /\ LET m1 == IF setup THEN [M EXCEPT !.connectionError = FALSE] ELSE M
                 m2 == IF text = "none" THEN m1
                       ELSE Emit([m1 EXCEPT !.filteredPrompts = @ \cup {text}],
                                 "filtered-prompt", text)
             IN  Commit(m2)
          /\ decoding' = processAudioChunks(audioChunks)
          /\ lastOp' = [Op("onmessage", a) EXCEPT !.chunks = audioChunks]
    /\ started' = << >>
    /\ UNCHANGED <<attempts, awaiting, overtaken, timers, now, thrPending>>

OnMessage(a, setups, texts, audios) ==
    onmessage(a, setups, texts, audios, MaxDecoding)

\* the decodes that may settle next, by position in delivery order: the decode
\* primitive is awaited per fragment and nothing orders its completions
decodeSettles == 1..Len(decoding)

\* decoding without its k-th fragment
Settle(k) == SubSeq(decoding, 1, k - 1) \o SubSeq(decoding, k + 1, Len(decoding))

\* overtaken once the k-th pending fragment settled, placed on the timeline
\* or not
Overtaken(k, placed) ==
    LET rest == IF k <= overtaken THEN overtaken - 1 ELSE overtaken
    IN  IF placed /\ k - 1 > rest THEN k - 1 ELSE rest

\* the catch of lines 89-91 reporting and pausing, as the catch of lines
\* 171-175 does
DecodeFailPauses ==
    /\ \E k \in decodeSettles :
          /\ decoding' = Settle(k)
          /\ overtaken' = Overtaken(k, FALSE)
    /\ Commit(pause(Emit(M, "error", "decode-failed"), TRUE))
    /\ lastOp' = Op("decodeFail", 0)
    /\ started' = << >>
    /\ UNCHANGED <<attempts, awaiting, timers, now, thrPending>>

\* decodeAudioData rejected: caught and logged at lines 89-91
DecodeFail ==
    /\ \E k \in decodeSettles :
          /\ decoding' = Settle(k)
          /\ overtaken' = Overtaken(k, FALSE)
    /\ Commit(M)
    /\ lastOp' = Op("decodeFail", 0)
    /\ started' = << >>
    /\ UNCHANGED <<attempts, awaiting, timers, now, thrPending>>

\* anchoring without the setTimeout of lines 133-135
armTimerNever(anchor) == timers

\* lines 133-135: the timer armed when the timeline is anchored
armTimer(anchor) == IF anchor THEN timers + 1 ELSE timers

\* every fragment anchored anew, as if line 131 always held
startAtAnchored(anchor) == now + bufferTime

\* lines 131-132: this.nextStartTime when line 137 reads it
startAt(anchor) == IF anchor THEN now + bufferTime ELSE nextStartTime

\* no underrun check
underrunNever(start) == FALSE

\* line 137
underrun(start) == start < now

\* decodeAudioData resolved for the k-th pending fragment with a buffer of
\* duration decoding[k]: lines 128-143
Schedule ==
    /\ nextStartTime = 0 => timers < MaxTimers
    /\ \E k \in decodeSettles :
          LET dur == decoding[k]
              anchor == nextStartTime = 0
              start == startAt(anchor)
          IN  /\ timers' = armTimer(anchor)
              /\ IF underrun(start)
                 THEN /\ Commit([setPlaybackState(M, "loading")
                                   EXCEPT !.nextStartTime = 0])
                      /\ started' = << >>
                 ELSE /\ Commit([M EXCEPT !.nextStartTime = start + dur])
                      /\ started' = <<[at |-> start, dur |-> dur]>>
              /\ decoding' = Settle(k)
              /\ overtaken' = Overtaken(k, ~underrun(start))
              /\ lastOp' = Op("schedule", k)
    /\ UNCHANGED <<attempts, awaiting, now, thrPending>>

\* the bufferTime timer of lines 133-135 fires: setTimeout runs on the event
\* loop's clock, not on the AudioContext's, so it is not tied to `now`
TimerFire ==
    /\ timers > 0
    /\ Commit(setPlaybackState(M, "playing"))
    /\ timers' = timers - 1
    /\ lastOp' = Op("timer", 0)
    /\ started' = << >>
    /\ UNCHANGED <<attempts, awaiting, decoding, overtaken, now, thrPending>>

\* audioContext.currentTime advances
Tick ==
    /\ now < MaxTime
    /\ now' = now + 1
    /\ Commit(M)
    /\ lastOp' = Op("tick", 0)
    /\ started' = << >>
    /\ UNCHANGED <<attempts, awaiting, decoding, overtaken, timers, thrPending>>

SetWeightedPromptsCall == SetWeightedPrompts(Snapshots \ {<< >>})
PromptsFlushed == ThrottleFire(BOOLEAN)
MessageDelivered ==
    \E a \in DOMAIN attempts :
        OnMessage(a, BOOLEAN, Texts \cup {"none"}, Single)
FactoryResolved == \E a \in DOMAIN attempts : connect(a)
FactoryRejected == \E a \in DOMAIN attempts : FactoryReject(a)
ConnectRejected == \E a \in DOMAIN attempts : ConnectReject(a)
ConnectResolved == \E a \in DOMAIN attempts : ConnectResolve(a)
TransportFailed ==
    \E a \in DOMAIN attempts, closes \in BOOLEAN : Disconnect(a, closes)

\* the commands, the connection and its transport
Session ==
    \/ PlayCall
    \/ PauseCall
    \/ StopCall
    \/ playPause
    \/ PromptsFlushed
    \/ FactoryResolved
    \/ FactoryRejected
    \/ ConnectRejected
    \/ ConnectResolved
    \/ TransportFailed

\* the scheduler
Scheduler ==
    \/ DecodeFail
    \/ Schedule
    \/ TimerFire

Next ==
    \/ Session
    \/ Scheduler
    \/ SetWeightedPromptsCall
    \/ MessageDelivered
    \/ Tick

Spec == Init /\ [][Next]_vars

\* The session under connection races: two connect attempts and two suspended
\* play() calls, one prompt snapshot, fragments of one duration scheduled
\* against a clock that stands still.
ActiveSnapshot == [i \in PromptIds |-> [text |-> Text(i), weight |-> 1]]
NextSession ==
    \/ Session
    \/ Scheduler
    \/ SetWeightedPrompts({ActiveSnapshot})
    \/ \E a \in DOMAIN attempts : OnMessage(a, BOOLEAN, {"none"}, Unit)

SpecSession == Init /\ [][NextSession]_vars

\* One play() of an active snapshot on a connection that succeeds and keeps
\* delivering decodable fragments; no other command, no transport failure.
\* The event loop runs every settled promise's continuation and every armed
\* timer, and the backend is taken to deliver: these are the fairness conditions.
PromptsGiven == Len(attempts) = 0 /\ SetWeightedPrompts({ActiveSnapshot})
PromptsSent == ThrottleFire({TRUE})
PlayOnce == Len(attempts) = 0 /\ activePrompts(M) # {} /\ PlayCall
FragmentDelivered ==
    \E a \in DOMAIN attempts : OnMessage(a, BOOLEAN, {"none"}, Single \ {<< >>})

NextLive ==
    \/ PromptsGiven
    \/ PromptsSent
    \/ PlayOnce
    \/ FactoryResolved
    \/ ConnectResolved
    \/ FragmentDelivered
    \/ Schedule
    \/ TimerFire
    \/ Tick

SpecLive ==
    /\ Init
    /\ [][NextLive]_vars
    /\ WF_vars(FactoryResolved)
    /\ WF_vars(ConnectResolved)
    /\ WF_vars(FragmentDelivered)
    /\ WF_vars(Schedule)
    /\ WF_vars(TimerFire)

\* The scheduler against a running clock: one connection, commands at any
\* time, fragments decoded and scheduled while audioContext.currentTime
\* advances, the transport failing at any time.
AudioPlay == (Len(attempts) = 0 \/ sessionPromise # 0) /\ PlayCall
NextAudio ==
    \/ PromptsGiven
    \/ PromptsFlushed
    \/ AudioPlay
    \/ PauseCall
    \/ StopCall
    \/ FactoryResolved
    \/ ConnectResolved
    \/ TransportFailed
    \/ FragmentDelivered
    \/ Scheduler
    \/ Tick

SpecAudio == Init /\ [][NextAudio]_vars

\* The prompt channel: one connection, the caller passing any snapshot at any
\* time, the backend filtering any prompt text, commands at any time; the
\* clock stands still.
NextPrompts ==
    \/ SetWeightedPromptsCall
    \/ PromptsFlushed
    \/ AudioPlay
    \/ PauseCall
    \/ StopCall
    \/ FactoryResolved
    \/ ConnectResolved
    \/ MessageDelivered
    \/ Scheduler

SpecPrompts == Init /\ [][NextPrompts]_vars

\* Reconnecting: stop() or a transport failure, then play() again, while the
\* backend reports filtered texts on each connection; no audio.
FilterMessage ==
    \E a \in DOMAIN attempts :
        OnMessage(a, {FALSE}, Texts \cup {"none"}, {<< >>})
NextReconnect ==
    \/ PromptsGiven
    \/ PromptsFlushed
    \/ PlayCall
    \/ StopCall
    \/ FactoryResolved
    \/ ConnectResolved
    \/ TransportFailed
    \/ FilterMessage

SpecReconnect == Init /\ [][NextReconnect]_vars

\* Overlapping decodes: one play() on one connection, the backend delivering
\* batches of fragments while earlier decodes are still suspended, each decode
\* settling whenever the primitive settles it, the clock running.
BatchDelivered ==
    \E a \in DOMAIN attempts :
        onmessage(a, BOOLEAN, {"none"}, Batches \ {<< >>}, MaxOverlap)
NextDecode ==
    \/ PromptsGiven
    \/ PromptsSent
    \/ PlayOnce
    \/ FactoryResolved
    \/ ConnectResolved
    \/ BatchDelivered
    \/ Scheduler
    \/ Tick

SpecDecode == Init /\ [][NextDecode]_vars

\* ------------------------------------------------------------ claims
IsOpen(a) == Stage(a) = "open"
Failed(a) == Stage(a) \in {"factoryRejected", "connectRejected"}
InFlight(a) == Stage(a) \in {"factory", "connecting"}

\* the step is a call of play(), direct or through playPause()
PlayStep == lastOp'.op \in {"play", "playPause"} /\ playbackState' = "loading"

Has(seq, x) == \E i \in DOMAIN seq : seq[i] = x
HasError(seq) == \E i \in DOMAIN seq : seq[i].type = "error"
Commands(seq, cmd) == {i \in DOMAIN seq : seq[i].cmd = cmd}

\* C1: a play() call made while the connection attempt is in flight awaits that
\* same attempt and invokes neither the credential factory nor connect again;
\* when the attempt resolves, every suspended play() gets its session.
C1_SameAttemptWhileInFlight ==
    [][/\ (PlayStep /\ sessionPromise # 0 /\ InFlight(sessionPromise)) =>
             /\ attempts' = attempts
             /\ sessionPromise' = sessionPromise
             /\ awaiting' = [awaiting EXCEPT ![sessionPromise] = @ + 1]
       /\ (lastOp'.op = "connectResolve" /\ awaiting[lastOp'.arg] > 0) =>
             /\ session' = lastOp'.arg
             /\ Cardinality(Commands(sent', "play")) = awaiting[lastOp'.arg]
             /\ \A i \in DOMAIN sent' : sent'[i].conn = lastOp'.arg]_vars

C1_Witness ==
    /\ lastOp.op = "connectResolve"
    /\ Len(sent) = 2
    /\ factoryCalls = 1
    /\ connectCalls = 1

\* C2: at most one opened connection has not been discarded by stop() or by a
\* transport failure.
Current ==
    {a \in DOMAIN attempts :
        IsOpen(a) /\ ~attempts[a].closed /\ ~attempts[a].dropped}

C2_AtMostOneCurrent == Cardinality(Current) <= 1

\* C3: stop() leaves the state stopped, and from stop() to the next play()
\* call both this.session and this.sessionPromise stay null.
C3_StaysCleared ==
    [][/\ tornDown' = "stop" /\ tornDown # "stop" => playbackState' = "stopped"
       /\ tornDown' = "stop" => session' = 0 /\ sessionPromise' = 0]_vars

\* C4: the first play() after stop() or after a transport failure calls the
\* credential factory again, for a new connection and a new session id.
C4_FreshAfterTeardown ==
    [][(tornDown # "none" /\ PlayStep) =>
          /\ Len(attempts') = Len(attempts) + 1
          /\ sessionPromise' = Len(attempts')]_vars

\* C5: after onerror or onclose the state is stopped, the timeline is
\* unscheduled, the handle and the pending promise are null, the connection is
\* marked errored and an error notification went out.
C5_DisconnectResets ==
    lastOp.op \in {"onerror", "onclose"} =>
        /\ playbackState = "stopped"
        /\ nextStartTime = 0
        /\ session = 0
        /\ sessionPromise = 0
        /\ connectionError
        /\ HasError(emitted)

C5_Witness ==
    /\ lastOp.op = "onclose"
    /\ HasError(emitted)
    /\ attempts[lastOp.arg].dropped
    /\ IsOpen(lastOp.arg)

\* C6: when the promise play() awaits rejects, the state is forced to stopped
\* and an error notification is emitted.
C6_FailedConnectStops ==
    lastOp.rejected > 0 => playbackState = "stopped" /\ HasError(emitted)

\* C7: a play() called after the connection attempt failed starts a new
\* attempt.
C7_RetryAfterFailure ==
    [][(PlayStep /\ sessionPromise # 0 /\ Failed(sessionPromise)) =>
          /\ Len(attempts') = Len(attempts) + 1
          /\ lastOp'.rejected = 0]_vars

\* C8: play() leaves the state loading, whether it suspends or runs through,
\* and only the bufferTime timer announces playing.
C8_PlayingOnlyByTimer ==
    /\ lastOp.op = "play" =>
          /\ playbackState = "loading"
          /\ emitted = <<Ev("playback-state-changed", "loading")>>
    /\ Has(emitted, Ev("playback-state-changed", "playing")) =>
          lastOp.op = "timer"

C8_Witness ==
    /\ lastOp.op = "play"
    /\ Cardinality(Commands(sent, "play")) = 1
    /\ playbackState = "loading"

\* C9: after play() of an active snapshot on a connection that succeeds and
\* delivers fragments, the state is loading and eventually becomes playing.
C9_LoadingLeadsToPlaying ==
    (playbackState = "loading") ~> (playbackState = "playing")

C9_Witness ==
    /\ lastOp.op = "timer"
    /\ playbackState = "playing"
    /\ session # 0
    /\ nextStartTime # 0

\* C10: pause() leaves the state paused and the timeline unscheduled, and
\* invokes the session's pause exactly when this.session is set.
C10_Pause ==
    lastOp.op = "pause" =>
        /\ playbackState = "paused"
        /\ nextStartTime = 0
        /\ IF session = 0 THEN sent = << >>
           ELSE /\ Len(sent) = 1
                /\ sent[1].cmd = "pause"
                /\ sent[1].conn = session

C10_Witness ==
    /\ lastOp.op = "pause"
    /\ session # 0
    /\ Len(sent) = 1

\* C11: pause() called right after pause(), or stop() right after stop(),
\* leaves every field of the manager as the first call left it; each call
\* dispatches at most one playback-state-changed notification, and runs to
\* its end also when the command it sends throws.
C11_Idempotent ==
    [][/\ (lastOp'.op \in {"pause", "stop"} /\ lastOp.op = lastOp'.op) =>
             mgr' = mgr
       /\ lastOp'.op \in {"pause", "stop"} =>
             /\ Len(StateChanges(emitted')) <= 1
             /\ playbackState' = IF lastOp'.op = "pause" THEN "paused"
                                 ELSE "stopped"]_vars

C11_Witness ==
    /\ lastOp.op = "pause"
    /\ lastOp.arg = 1
    /\ Len(sent) = 1
    /\ ~sent[1].ok
    /\ Len(StateChanges(emitted)) = 1

\* C12: playPause() in state playing does what pause() does, in paused or
\* stopped what play() does, in loading what stop() does, and nothing else.
Only(seq, cmd) == \A i \in DOMAIN seq : seq[i].cmd = cmd
Announces(seq, state) == seq = <<Ev("playback-state-changed", state)>>

C12_PlayPauseDispatch ==
    [][lastOp'.op = "playPause" =>
          CASE playbackState = "playing" ->
                  /\ Announces(emitted', "paused")
                  /\ Only(sent', "pause")
                  /\ Len(sent') = IF session = 0 THEN 0 ELSE 1
                  /\ attempts' = attempts
                  /\ <<session', sessionPromise'>> = <<session, sessionPromise>>
            [] playbackState \in {"paused", "stopped"} ->
                  /\ Announces(emitted', "loading")
                  /\ Only(sent', "play")
                  /\ sessionPromise' # 0
                  /\ nextStartTime' = nextStartTime
            [] playbackState = "loading" ->
                  /\ Announces(emitted', "stopped")
                  /\ Only(sent', "stop")
                  /\ Len(sent') = IF session = 0 THEN 0 ELSE 1
                  /\ <<session', sessionPromise'>> = <<0, 0>>]_vars

C12_Witness ==
    /\ lastOp.op = "playPause"
    /\ playbackState = "stopped"
    /\ Len(sent) = 1
    /\ sent[1].cmd = "stop"

\* C13: the playback state is the state the last playback-state-changed
\* notification carried, and stopped while none was dispatched.
C13_StateIsAnnounced == playbackState = announced

C13_Witness ==
    /\ lastOp.op = "timer"
    /\ announced = "playing"
    /\ playbackState = "playing"
    /\ Len(StateChanges(emitted)) = 1

\* C14: a fragment scheduled while the timeline is anchored starts exactly at
\* the nextStartTime the previous fragment left, and leaves its start plus its
\* duration; between two fragments only an underrun, pause(), stop() or a
\* transport failure moves nextStartTime, and then to 0.  So the start times
\* of consecutive fragments are gapless and strictly increasing.
Resets == {"pause", "stop", "playPause", "setWeightedPromptsBody",
           "onerror", "onclose"}

C14_Gapless ==
    [][/\ (lastOp'.op = "schedule" /\ started' # << >>) =>
             /\ nextStartTime # 0 => started'[1].at = nextStartTime
             /\ nextStartTime' = started'[1].at + started'[1].dur
             /\ nextStartTime' > started'[1].at
       /\ (nextStartTime # 0 /\ nextStartTime' # nextStartTime) =>
             \/ lastOp'.op = "schedule"
             \/ nextStartTime' = 0 /\ lastOp'.op \in Resets]_vars

C14_Witness ==
    /\ lastOp.op = "schedule"
    /\ Len(started) = 1
    /\ started[1].at > now + bufferTime
    /\ nextStartTime = started[1].at + started[1].dur

\* C15: a fragment whose decode completes at device time `now` while
\* nextStartTime is nonzero and less than `now` is not started: the state
\* becomes loading and nextStartTime 0.  nextStartTime then stays 0 until a
\* fragment is processed, and that fragment starts at its `now` + bufferTime.
C15_UnderrunRecovery ==
    [][/\ (lastOp'.op = "schedule" /\ nextStartTime # 0 /\ nextStartTime < now) =>
             /\ playbackState' = "loading"
             /\ nextStartTime' = 0
             /\ started' = << >>
             /\ timers' = timers
       /\ (lastOp'.op = "schedule" /\ nextStartTime = 0) =>
             /\ Len(started') = 1
             /\ started'[1].at = now + bufferTime
       /\ (nextStartTime = 0 /\ nextStartTime' # 0) => lastOp'.op = "schedule"]_vars

C15_Witness ==
    /\ lastOp.op = "schedule"
    /\ started = << >>
    /\ playbackState = "loading"
    /\ nextStartTime = 0
    /\ now > bufferTime

\* C16: while the state is playing, nextStartTime is 0 or not behind the
\* device time; nextStartTime is never negative.
C16_TimelineAhead ==
    /\ playbackState = "playing" => nextStartTime = 0 \/ nextStartTime >= now
    /\ nextStartTime >= 0

\* C17: a fragment message that arrives while the state is paused or stopped
\* starts no decode, starts no source, arms no timer, and leaves the playback
\* state and nextStartTime as they were.
C17_DroppedWhileIdle ==
    [][(lastOp'.op = "onmessage" /\ playbackState \in {"paused", "stopped"}) =>
          /\ decoding' = decoding
          /\ timers' = timers
          /\ started' = << >>
          /\ emitted' = << >>
          /\ playbackState' = playbackState
          /\ nextStartTime' = nextStartTime]_vars

C17_Witness ==
    /\ lastOp.op = "onmessage"
    /\ playbackState = "paused"
    /\ session # 0
    /\ decoding = << >>
    /\ timers = 0

\* C18: the calls of setWeightedPrompts within one window send nothing by
\* themselves and leave the latest argument pending; when the window ends with
\* a connection and an active prompt in that argument, exactly one prompt
\* update is sent, carrying the active set of that latest argument.
ActiveOf(snapshot) == activePrompts([M EXCEPT !.prompts = snapshot])
Callers == {"setWeightedPrompts", "play", "playPause", "connectResolve"}
Errors(seq) == SelectSeq(seq, LAMBDA e : e.type = "error")

C19_NoActivePrompt ==
    (lastOp.op = "setWeightedPromptsBody" /\ activePrompts(M) = {}) =>
        /\ playbackState = "paused"
        /\ Len(Errors(emitted)) = 1
        /\ Commands(sent, "prompts") = {}

C19_Witness ==
    /\ lastOp.op = "setWeightedPromptsBody"
    /\ \E i \in DOMAIN prompts :
          prompts[i].weight # 0 /\ prompts[i].text \in filteredPrompts
    /\ activePrompts(M) = {}
    /\ playbackState = "paused"
    /\ Len(Errors(emitted)) = 1
    /\ session # 0

\* C20: setWeightedPrompts with a snapshot that has an active prompt, while
\* this.session is null, stores the snapshot and nothing else: no command is
\* sent, no connection attempt starts, nothing is dispatched, and every other
\* field of the manager stays as it was.
C20_StoredOnly ==
    [][(lastOp'.op = "setWeightedPromptsBody" /\ session = 0
           /\ ActiveOf(thrPending[1]) # {}) =>
          /\ prompts' = thrPending[1]
          /\ sent' = << >>
          /\ emitted' = << >>
          /\ attempts' = attempts
          /\ <<playbackState', session', sessionPromise', connectionError',
                filteredPrompts', nextStartTime', sessionId', outputConnected'>>
             = <<playbackState, session, sessionPromise, connectionError,
                 filteredPrompts, nextStartTime, sessionId, outputConnected>>]_vars

C20_Witness ==
    /\ lastOp.op = "setWeightedPromptsBody"
    /\ session = 0
    /\ Len(attempts) = 0
    /\ activePrompts(M) # {}
    /\ emitted = << >>
    /\ sent = << >>
    /\ playbackState = "stopped"

\* C21: after the body of setWeightedPrompts ran with a connection and its
\* prompt send failed, one error notification was dispatched, the state is
\* paused, the body ran to its end and this.session still holds the
\* connection the send was made on.
FailedSends(seq, cmd) == {i \in Commands(seq, cmd) : ~seq[i].ok}

C21_SendFailurePauses ==
    (lastOp.op = "setWeightedPromptsBody" /\ FailedSends(sent, "prompts") # {}) =>
        /\ Len(Errors(emitted)) = 1
        /\ playbackState = "paused"
        /\ nextStartTime = 0
        /\ session # 0
        /\ \A i \in Commands(sent, "prompts") : sent[i].conn = session

C21_Witness ==
    /\ lastOp.op = "setWeightedPromptsBody"
    /\ FailedSends(sent, "prompts") # {}
    /\ Len(sent) = 2
    /\ sent[2].cmd = "pause"
    /\ announced = "paused"

\* C22: a text the backend reported as filtered is in filteredPrompts and no
\* active prompt has it, whatever the weight; a prompt of the snapshot is
\* active exactly when its weight is nonzero and its text is not filtered, and
\* a prompt update carries only such prompts.
Filtered(seq) ==
    {seq[i].detail : i \in {j \in DOMAIN seq : seq[j].type = "filtered-prompt"}}

C22_ActiveSet ==
    /\ \A t \in Filtered(emitted) :
          /\ t \in filteredPrompts
          /\ \A p \in activePrompts(M) : p.text # t
    /\ \A i \in DOMAIN prompts :
          (\E p \in activePrompts(M) : p.id = i /\ p.text = prompts[i].text
                                          /\ p.weight = prompts[i].weight)
          <=> (prompts[i].weight # 0 /\ prompts[i].text \notin filteredPrompts)
    /\ \A p \in activePrompts(M) : p.id \in DOMAIN prompts
    /\ \A i \in Commands(sent, "prompts") : \A p \in sent[i].arg :
          p.weight # 0 /\ p.text \notin filteredPrompts

C22_Witness ==
    /\ lastOp.op = "onmessage"
    /\ Filtered(emitted) # {}
    /\ \E i \in DOMAIN prompts :
          prompts[i].weight # 0 /\ prompts[i].text \in Filtered(emitted)
    /\ activePrompts(M) = {}

\* C23: while a connection lives, no command (play, pause, playPause,
\* setWeightedPrompts) and no inbound message takes a text out of
\* filteredPrompts.
Teardowns == {"stop", "onerror", "onclose"}

C23_FilteredGrows ==
    [][lastOp'.op \notin Teardowns =>
          filteredPrompts \subseteq filteredPrompts']_vars

C23_Witness ==
    /\ lastOp.op = "pause"
    /\ session # 0
    /\ filteredPrompts # {}
    /\ playbackState = "paused"

\* C24: when a connection is established and every earlier one was torn down
\* by stop() or a transport failure, filteredPrompts is empty: the texts
\* filtered on an earlier connection are gone, and exclude no prompt from the
\* active set.
C24_FilteredResetOnReconnect ==
    (lastOp.op = "connectResolve" /\ Current = {lastOp.arg}) =>
        /\ filteredPrompts = {}
        /\ activePrompts(M) = activePromptsUnfiltered(M)

\* C25: a fragment whose decode fails (an empty batch fails the same way, at
\* line 123) is dropped and nothing else changes: playback state,
\* nextStartTime, the handle and the pending promise stay, nothing is started
\* or dispatched, no timer is armed; and a fragment that arrives next is
\* decoded.
C25_DecodeFailureSwallowed ==
    /\ [][lastOp'.op = "decodeFail" =>
             /\ Len(decoding') = Len(decoding) - 1
             /\ mgr' = mgr
             /\ timers' = timers
             /\ attempts' = attempts
             /\ started' = << >>
             /\ emitted' = << >>
             /\ sent' = << >>]_vars
    /\ []((lastOp.op = "decodeFail" /\ playbackState \in {"loading", "playing"}
              /\ nextStartTime <= MaxTime /\ Current # {}) =>
             ENABLED FragmentDelivered)

C25_Witness ==
    /\ lastOp.op = "decodeFail"
    /\ playbackState = "playing"
    /\ nextStartTime # 0
    /\ session # 0
    /\ decoding = << >>

\* C26: when the play, pause or stop command throws, the handler that sent
\* it still did all the rest: pause() left paused and nextStartTime 0, stop()
\* left stopped, nextStartTime 0 and both references null, play() kept the
\* handle it had set and connected the output.
C26_SendFailureCaught ==
    /\ FailedSends(sent, "pause") # {} =>
          playbackState = "paused" /\ nextStartTime = 0
    /\ FailedSends(sent, "stop") # {} =>
          /\ playbackState = "stopped"
          /\ nextStartTime = 0
          /\ session = 0
          /\ sessionPromise = 0
    /\ FailedSends(sent, "play") # {} =>
          /\ outputConnected
          /\ \A i \in Commands(sent, "play") : sent[i].conn = session

C26_Witness ==
    /\ lastOp.op = "stop"
    /\ FailedSends(sent, "stop") # {}
    /\ announced = "stopped"
    /\ tornDown = "stop"

\* C27: the onerror and onclose callbacks invoke no command of any session.
C27_DisconnectSendsNothing ==
    lastOp.op \in {"onerror", "onclose"} => sent = << >>

C27_Witness ==
    /\ lastOp.op = "onerror"
    /\ IsOpen(lastOp.arg)
    /\ sent = << >>
    /\ HasError(emitted)
    /\ tornDown = "failure"

\* C28: onerror or onclose from a connection that stop() or an earlier failure
\* already discarded, while a newer attempt or connection is held, changes
\* neither the playback state nor the handle nor the pending promise, and
\* dispatches no error.
Stale(a) == attempts[a].dropped /\ session # a /\ sessionPromise # a
Newer(a) == sessionPromise # 0 \/ session # 0

C28_StaleDisconnectIgnored ==
    [][(lastOp'.op \in {"onerror", "onclose"}
           /\ Stale(lastOp'.arg) /\ Newer(lastOp'.arg)) =>
          /\ playbackState' = playbackState
          /\ session' = session
          /\ sessionPromise' = sessionPromise
          /\ ~HasError(emitted')]_vars

\* C29: a fragment delivered by a connection that stop() or a transport
\* failure already discarded, and that the manager no longer holds, starts no
\* decode, whatever the playback state.
C29_StaleFragmentDropped ==
    [][(lastOp'.op = "onmessage" /\ Stale(lastOp'.arg)) =>
          decoding' = decoding]_vars

\* C30: the state becomes playing only from loading; a timer that fires in
\* paused or stopped leaves the state as it is.
C30_PlayingOnlyFromLoading ==
    [][(playbackState' = "playing" /\ playbackState # "playing") =>
          playbackState = "loading"]_vars

\* C31: while the state is paused or stopped, nextStartTime is 0 and no
\* source is started: a decode that completes after pause(), stop() or a
\* transport failure starts nothing and does not anchor the timeline.
C31_IdleTimelineUnscheduled ==
    playbackState \in {"paused", "stopped"} =>
        /\ nextStartTime = 0
        /\ started = << >>

\* ---------------------------------------------------- the token endpoint
Methods == {"GET", "HEAD", "POST"}         \* req.method
Keys    == {"unset", "empty", "set"}       \* process.env.GEMINI_API_KEY
\* what ai.authTokens.create settles with: it throws, or resolves with no
\* token, with a token that has no name, or with a named token
Tokens  == {"throws", "null", "unnamed", "tokens/1"}
Named(token) == token \notin {"throws", "null", "unnamed"}

Response(status, body, noStore) ==
    [status |-> status, body |-> body, noStore |-> noStore]

\* created: "no" while authTokens.create was not called, "pending" while it is
\* awaited, then what it settled with
Request(method, key) ==
    [method |-> method, key |-> key, created |-> "no", responses |-> << >>]

Respond(req, status, body, noStore) ==
    [req EXCEPT !.responses = Append(@, Response(status, body, noStore))]

\* the handler without the method check of lines 6-9
handlerAnyMethod(method, key) ==
    LET req == Request(method, key)
    IN  IF key # "set"
        THEN Respond(req, 500, "Server misconfiguration", FALSE)
        ELSE [req EXCEPT !.created = "pending"]

\* handler up to `await ai.authTokens.create`: lines 5-20
handler(method, key) ==
    LET req == Request(method, key)
    IN  IF method # "GET"
        THEN Respond(req, 405, "Method Not Allowed", FALSE)
        ELSE IF key # "set"
        THEN Respond(req, 500, "Server misconfiguration", FALSE)
        ELSE [req EXCEPT !.created = "pending"]

\* handler from the settling of authTokens.create: lines 20-31
handlerResumed(req, token) ==
    LET req1 == [req EXCEPT !.created = token]
    IN  IF token = "throws"
        THEN Respond(req1, 500, "Internal Server Error", FALSE)
        ELSE IF ~Named(token)
        THEN Respond(req1, 500, "Failed to create auth token", FALSE)
        ELSE Respond(req1, 200, token, TRUE)

TokenRequested ==
    /\ Len(requests) < MaxRequests
    /\ \E method \in Methods, key \in Keys :
          requests' = Append(requests, handler(method, key))
    /\ UNCHANGED client

TokenSettled ==
    /\ \E r \in DOMAIN requests, token \in Tokens :
          /\ requests[r].created = "pending"
          /\ requests' = [requests EXCEPT ![r] = handlerResumed(@, token)]
    /\ UNCHANGED client

NextToken ==
    \/ TokenRequested
    \/ TokenSettled

SpecToken == Init /\ [][NextToken]_vars

\* C32: fragments are placed on the timeline in the order their messages
\* were delivered: a fragment is never placed after one that was delivered
\* later, also when messages arrive while earlier decodes are suspended.
C32_PlacedInDeliveryOrder ==
    [][(lastOp'.op = "schedule" /\ started' # << >>) =>
          lastOp'.arg > overtaken]_vars

\* C33: when play() sends the play command on a connection and the current
\* snapshot has an active prompt, the active prompt set of that snapshot went
\* out on the same connection before the play command. Stated on the play
\* command that play() sends as the connection opens: nothing can have gone
\* out on that connection in an earlier step, so the prompt command has to
\* precede the play command among the commands of the step.
C33_PromptsBeforePlay ==
    [][(lastOp'.op = "connectResolve" /\ activePrompts(M) # {}) =>
          \A i \in Commands(sent', "play") :
              \E j \in 1..(i - 1) :
                  sent'[j] = Cmd(sent'[i].conn, "prompts", activePrompts(M), TRUE)]_vars

\* C34: play() sends the play command only while the playback state is
\* loading: not when stop(), a transport failure, pause() or the empty
\* active-prompt guard changed the state while play() was suspended.
C34_PlaySentOnlyWhileLoading ==
    Commands(sent, "play") # {} => playbackState = "loading"

\* C35: of a batch of k >= 1 fragments processed while loading or playing only
\* the first is decoded: the message suspends one decode, that of its first
\* fragment; the decode settling starts at most one source and moves
\* nextStartTime to that source's start plus the duration of the fragment.
C35_FirstFragmentOnly ==
    [][/\ (/\ lastOp'.op = "onmessage"
           /\ lastOp'.chunks # << >>
           /\ playbackState \in {"loading", "playing"}) =>
             decoding' = Append(decoding, lastOp'.chunks[1])
       /\ lastOp'.op = "schedule" =>
             /\ Len(decoding') = Len(decoding) - 1
             /\ Len(started') <= 1
             /\ started' # << >> =>
                   /\ started'[1].dur = decoding[lastOp'.arg]
                   /\ nextStartTime' =
                         (IF nextStartTime = 0 THEN now + bufferTime
                          ELSE nextStartTime) + decoding[lastOp'.arg]]_vars

\* C35 happens: a batch of two fragments of different durations arrived while
\* loading and one decode, of the first fragment, is suspended
C35_Witness ==
    /\ lastOp.op = "onmessage"
    /\ Len(lastOp.chunks) = 2
    /\ lastOp.chunks[1] # lastOp.chunks[2]
    /\ playbackState = "loading"
    /\ decoding = <<lastOp.chunks[1]>>

\* C36: pause() keeps this.session and this.sessionPromise, so a play() called
\* in the paused state, with a connect attempt made and no stop() or
\* transport failure since the play() before, reuses the connection: the
\* credential factory and connect are not invoked again.
C36_PauseKeepsConnection ==
    [][/\ (lastOp'.op \in {"pause", "playPause"} /\ playbackState' = "paused") =>
             /\ session' = session
             /\ sessionPromise' = sessionPromise
             /\ attempts' = attempts
       /\ (/\ PlayStep
           /\ playbackState = "paused"
           /\ tornDown = "none"
           /\ Len(attempts) > 0) =>
             /\ sessionPromise' = sessionPromise
             /\ factoryCalls' = factoryCalls
             /\ connectCalls' = connectCalls
             /\ attempts' = attempts]_vars

\* C36 happens: play() called in the paused state sent the play command on
\* the connection of the only connect attempt there was
C36_Witness ==
    /\ lastOp.op = "play"
    /\ lastOp.arg = 1
    /\ tornDown = "none"
    /\ factoryCalls = 1
    /\ session = 1
    /\ sent = <<Cmd(1, "play", {}, TRUE)>>

\* C37: the token handler sends exactly one response per request: 405 for a
\* method other than GET, with authTokens.create not called; 500 when the key
\* is missing, when the creation throws or yields no name; 200 with the
\* token's name and Cache-Control: no-store for a GET with a key and a named
\* token, and for nothing else. While the creation is awaited nothing is sent.
C37_TokenResponses ==
    \A r \in DOMAIN requests :
        LET req == requests[r]
            ok == req.method = "GET" /\ req.key = "set" /\ Named(req.created)
        IN  IF req.created = "pending" THEN req.responses = << >>
            ELSE /\ Len(req.responses) = 1
                 /\ req.method # "GET" =>
                       req.responses[1].status = 405 /\ req.created = "no"
                 /\ (req.method = "GET" /\ req.key # "set") =>
                       req.responses[1].status = 500 /\ req.created = "no"
                 /\ (req.method = "GET" /\ req.key = "set" /\ ~Named(req.created)) =>
                       req.responses[1].status = 500
                 /\ ok => req.responses[1] = Response(200, req.created, TRUE)
                 /\ req.responses[1].status = 200 => ok

\* C37 happens: one request was answered 200 with the token's name, another,
\* not a GET, 405
C37_Witness ==
    /\ Len(requests) = 2
    /\ requests[1].responses = <<Response(200, "tokens/1", TRUE)>>
    /\ requests[2].method = "POST"
    /\ requests[2].responses = <<Response(405, "Method Not Allowed", FALSE)>>

TypeOK ==
    /\ playbackState \in PlaybackStates
    /\ session \in 0..MaxAttempts
    /\ sessionPromise \in 0..MaxAttempts
    /\ connectionError \in BOOLEAN
    /\ filteredPrompts \subseteq Texts
    /\ nextStartTime \in Nat
    /\ prompts \in Snapshots
    /\ Len(attempts) <= MaxAttempts
    /\ Suspended <= MaxPlays
    /\ decoding \in Seq(Durations)
    /\ Len(decoding) <= MaxOverlap
    /\ overtaken \in 0..Len(decoding)
    /\ timers \in 0..MaxTimers
    /\ now \in 0..MaxTime

====
